---------------------------- MODULE Spec2Model ----------------------------
(***************************************************************************)
(* A state-machine model of the CHIP-8 interpreter core                    *)
(* (chip8_core/src/lib.rs).  The Emu struct is modelled field by field;    *)
(* every public method of Emu is one action.  A Rust panic ends the run:   *)
(* it is recorded in the variable panic, and no method runs after it.      *)
(*                                                                         *)
(* The two large arrays are held in sparse form, which is one-to-one with  *)
(* the arrays themselves: ram ([u8; 4096]) is the finite map from the      *)
(* addresses that hold a non-zero byte to that byte, read with byte(m, a); *)
(* screen ([bool; 2048]) is the set of the indices of the lit pixels, read *)
(* with pixel(s, idx).  Bounds are checked against RAM_SIZE where the code *)
(* indexes the array.                                                      *)
(***************************************************************************)
EXTENDS Integers, Sequences, FiniteSets, TLC

(***************************************************************************)
(* Program constants.                                                      *)
(***************************************************************************)
SCREEN_WIDTH == 64
SCREEN_HEIGHT == 32
RAM_SIZE == 4096
NUM_REGISTERS == 16
STACK_SIZE == 16
NUM_KEYS == 16
START_ADDR == 512
FONTSET_SIZE == 80

FONTSET ==
    << 240, 144, 144, 144, 240,
        32,  96,  32,  32, 112,
       240,  16, 240, 128, 240,
       240,  16, 240,  16, 240,
       144, 144, 240,  16,  16,
       240, 128, 240,  16, 240,
       240, 128, 240, 144, 240,
       240,  16,  32,  64,  64,
       240, 144, 240, 144, 240,
       240, 144, 240,  16, 240,
       240, 144, 240, 144, 144,
       224, 144, 224, 144, 224,
       240, 128, 128, 128, 240,
       224, 144, 144, 144, 224,
       240, 128, 240, 128, 240,
       240, 128, 240, 128, 128 >>

(***************************************************************************)
(* Machine integers.                                                       *)
(***************************************************************************)
U8 == 256
U16 == 65536

Pow2(k) == 2 ^ k

\* bit k of a (k = 0 is the least significant bit)
Bit(a, k) == (a \div Pow2(k)) % 2

\* a | b, a & b, a ^ b on u8 operands
bitor(a, b) == LET F[k \in 0..8] == IF k = 8 THEN 0 ELSE (IF Bit(a, k) + Bit(b, k) > 0 THEN Pow2(k) ELSE 0) + F[k + 1] IN F[0]
bitand(a, b) == LET F[k \in 0..8] == IF k = 8 THEN 0 ELSE (IF Bit(a, k) + Bit(b, k) = 2 THEN Pow2(k) ELSE 0) + F[k + 1] IN F[0]
bitxor(a, b) == LET F[k \in 0..8] == IF k = 8 THEN 0 ELSE (IF Bit(a, k) + Bit(b, k) = 1 THEN Pow2(k) ELSE 0) + F[k + 1] IN F[0]

\* u8::wrapping_add
wrapping_add(a, b) == (a + b) % U8

\* u8::overflowing_add: <<wrapped sum, carry>>
overflowing_add(a, b) == << (a + b) % U8, a + b >= U8 >>

\* overflowing_sub that also reports a borrow for equal operands
overflowing_sub_borrow_on_equal(a, b) == << (a - b + U8) % U8, a <= b >>

\* u8::overflowing_sub: <<wrapped difference, borrow>>
overflowing_sub(a, b) == << (a - b + U8) % U8, a < b >>

\* u8 >> 1
shr1(a) == a \div 2

\* u8 << 1 (the bit shifted out is dropped)
shl1(a) == (2 * a) % U8

\* u16::wrapping_add
wrapping_add16(a, b) == (a + b) % U16

(***************************************************************************)
(* State: the fields of Emu; the build's overflow-checks setting; the      *)
(* panic (if any) that ended the run; and three history variables, which   *)
(* no method reads: last, the method call just made; ticks, the number of  *)
(* tick() calls since construction or the last reset(); initial, the Emu   *)
(* value the run began with.                                               *)
(***************************************************************************)
VARIABLES pc, ram, screen, v_reg, i_reg, sp, stack, keys, dt, st,
          panic, overflow_checks, last, ticks, initial

vars == << pc, ram, screen, v_reg, i_reg, sp, stack, keys, dt, st, panic, overflow_checks, last, ticks, initial >>

\* the Emu value (with the panic that ended the run, if any) as one record
Self == [pc |-> pc, ram |-> ram, screen |-> screen, v_reg |-> v_reg, i_reg |-> i_reg, sp |-> sp, stack |-> stack, keys |-> keys, dt |-> dt, st |-> st, panic |-> panic]

\* the Emu value after the step is e
Becomes(e) ==
    /\ pc' = e.pc
    /\ ram' = e.ram
    /\ screen' = e.screen
    /\ v_reg' = e.v_reg
    /\ i_reg' = e.i_reg
    /\ sp' = e.sp
    /\ stack' = e.stack
    /\ keys' = e.keys
    /\ dt' = e.dt
    /\ st' = e.st
    /\ panic' = e.panic

\* the Emu value is e
Is(e) ==
    /\ pc = e.pc
    /\ ram = e.ram
    /\ screen = e.screen
    /\ v_reg = e.v_reg
    /\ i_reg = e.i_reg
    /\ sp = e.sp
    /\ stack = e.stack
    /\ keys = e.keys
    /\ dt = e.dt
    /\ st = e.st
    /\ panic = e.panic

NoPanic == [msg |-> "none", op |-> -1]

\* the run ends in a panic with message msg; e is the Emu value at that point
Panic(e, msg) == [e EXCEPT !.panic = [msg |-> msg, op |-> -1]]

Running(e) == e.panic.msg = "none"

(***************************************************************************)
(* Emu::new, Emu::reset                                                    *)
(***************************************************************************)
\* [0; RAM_SIZE]: no byte is non-zero
ram_zeroed == [a \in {} |-> 0]

\* ram[a], for a < RAM_SIZE
byte(m, a) == IF a \in DOMAIN m THEN m[a] ELSE 0

\* ram[a] = b, for a < RAM_SIZE
store(m, a, b) == [c \in (IF b = 0 THEN DOMAIN m \ {a} ELSE DOMAIN m \cup {a}) |-> IF c = a THEN b ELSE m[c]]

\* ram[start..start + Len(data)].copy_from_slice(data), the range within the ram
copy_from_slice(m, start, data) ==
    LET range == start..(start + Len(data) - 1)
        nonzero == {a \in range : data[a - start + 1] # 0}
    IN  [a \in ((DOMAIN m \ range) \cup nonzero) |-> IF a \in range THEN data[a - start + 1] ELSE m[a]]

\* [false; SCREEN_WIDTH * SCREEN_HEIGHT]: no pixel is lit
screen_cleared == {}

\* screen[idx]
pixel(s, idx) == idx \in s

\* screen[idx] |= true
toggle_sets(s, idx) == s \cup {idx}

\* screen[idx] ^= true
toggle(s, idx) == IF idx \in s THEN s \ {idx} ELSE s \cup {idx}
v_reg_zeroed == [r \in 0..(NUM_REGISTERS - 1) |-> 0]
stack_zeroed == [s \in 0..(STACK_SIZE - 1) |-> 0]
keys_released == [k \in 0..(NUM_KEYS - 1) |-> FALSE]

\* ram[..FONTSET_SIZE].copy_from_slice(&FONTSET)
copy_fontset(m) == copy_from_slice(m, 0, FONTSET)

new == [pc |-> START_ADDR, ram |-> copy_fontset(ram_zeroed), screen |-> screen_cleared, v_reg |-> v_reg_zeroed, i_reg |-> 0, sp |-> 0, stack |-> stack_zeroed, keys |-> keys_released, dt |-> 0, st |-> 0, panic |-> NoPanic]

\* a reset that leaves the key flags as they are
reset_keeps_keys(e) == [e EXCEPT !.pc = START_ADDR, !.ram = copy_fontset(ram_zeroed), !.screen = screen_cleared, !.v_reg = v_reg_zeroed, !.i_reg = 0, !.sp = 0, !.stack = stack_zeroed, !.dt = 0, !.st = 0]

reset(e) == [e EXCEPT !.pc = START_ADDR, !.ram = copy_fontset(ram_zeroed), !.screen = screen_cleared, !.v_reg = v_reg_zeroed, !.i_reg = 0, !.sp = 0, !.stack = stack_zeroed, !.keys = keys_released, !.dt = 0, !.st = 0]

(***************************************************************************)
(* Emu::keypress, Emu::load                                                *)
(***************************************************************************)
\* keys[idx] = pressed; an index past the array panics
keypress(e, idx, pressed) == IF idx >= NUM_KEYS THEN Panic(e, "index out of bounds") ELSE [e EXCEPT !.keys[idx] = pressed]

\* a load that copies the bytes that fit before it fails
load_truncating(e, data) ==
    LET start == START_ADDR
        end == START_ADDR + Len(data)
    IN  IF end > RAM_SIZE
        THEN Panic([e EXCEPT !.ram = copy_from_slice(e.ram, start, SubSeq(data, 1, RAM_SIZE - start))], "range end index out of range")
        ELSE [e EXCEPT !.ram = copy_from_slice(e.ram, start, data)]

\* ram[start..end].copy_from_slice(data); a range past the array panics
\* before any byte is copied.  data is a sequence of bytes.
load(e, data) ==
    LET start == START_ADDR
        end == START_ADDR + Len(data)
    IN  IF end > RAM_SIZE
        THEN Panic(e, "range end index out of range")
        ELSE [e EXCEPT !.ram = copy_from_slice(e.ram, start, data)]

(***************************************************************************)
(* Emu::push, Emu::pop                                                     *)
(***************************************************************************)
\* sp += 1; stack[sp] = val: the pointer moved before the store
push_increment_first(e, val) == IF e.sp + 1 >= STACK_SIZE THEN Panic([e EXCEPT !.sp = e.sp + 1], "index out of bounds") ELSE [e EXCEPT !.stack[e.sp + 1] = val, !.sp = e.sp + 1]

\* stack[sp] = val; sp += 1
push(e, val) == IF e.sp >= STACK_SIZE THEN Panic(e, "index out of bounds") ELSE [e EXCEPT !.stack[e.sp] = val, !.sp = e.sp + 1]

\* sp -= 1; stack[sp].  With sp = 0 the subtraction panics under overflow
\* checks and wraps to 65535 without them, where the index then panics.
\* The result is [emu, val].
pop(e) ==
    IF e.sp = 0 /\ overflow_checks
    THEN [emu |-> Panic(e, "attempt to subtract with overflow"), val |-> 0]
    ELSE LET sp1 == (e.sp - 1 + U16) % U16
         IN  IF sp1 >= STACK_SIZE
             THEN [emu |-> Panic([e EXCEPT !.sp = sp1], "index out of bounds"), val |-> 0]
             ELSE [emu |-> [e EXCEPT !.sp = sp1], val |-> e.stack[sp1]]

(***************************************************************************)
(* Emu::tick_timers                                                        *)
(***************************************************************************)
\* a timer decremented without the test for zero
count_down_wrapping(t) == (t - 1 + U8) % U8

\* the timer after one tick
count_down(t) == IF t > 0 THEN t - 1 ELSE t

tick_timers(e) == [e EXCEPT !.dt = count_down(e.dt), !.st = count_down(e.st)]

(***************************************************************************)
(* Emu::fetch                                                              *)
(***************************************************************************)
digit1(op) == (op \div 4096) % 16
digit2(op) == (op \div 256) % 16
digit3(op) == (op \div 16) % 16
digit4(op) == op % 16

\* the result is [emu, op]: the two bytes at pc, big-endian, and pc += 2
fetch(e) ==
    IF e.pc >= RAM_SIZE \/ e.pc + 1 >= RAM_SIZE
    THEN [emu |-> Panic(e, "index out of bounds"), op |-> 0]
    ELSE [emu |-> [e EXCEPT !.pc = e.pc + 2], op |-> byte(e.ram, e.pc) * 256 + byte(e.ram, e.pc + 1)]

(***************************************************************************)
(* Emu::execute, one operator per match arm.  e is the Emu value after     *)
(* fetch (pc already advanced by 2); x, y, nn, nnn, n are the decoded      *)
(* operands.                                                               *)
(***************************************************************************)
\* pc += 2
skip(e) == [e EXCEPT !.pc = e.pc + 2]

\* 00E0 - clear screen
op_00E0(e) == [e EXCEPT !.screen = screen_cleared]

\* 00EE - return from subroutine
op_00EE(e) == LET r == pop(e) IN IF Running(r.emu) THEN [r.emu EXCEPT !.pc = r.val] ELSE r.emu

\* 1NNN - jump
op_1NNN(e, nnn) == [e EXCEPT !.pc = nnn]

\* 2NNN - call subroutine
op_2NNN(e, nnn) == LET r == push(e, e.pc) IN IF Running(r) THEN [r EXCEPT !.pc = nnn] ELSE r

\* 3XNN - skip next if VX == NN
op_3XNN(e, x, nn) == IF e.v_reg[x] = nn THEN skip(e) ELSE e

\* 4XNN with the test of 3XNN
op_4XNN_skips_on_equal(e, x, nn) == IF e.v_reg[x] = nn THEN skip(e) ELSE e

\* 4XNN - skip next if VX != NN
op_4XNN(e, x, nn) == IF e.v_reg[x] # nn THEN skip(e) ELSE e

\* 5XY0 - skip next if VX == VY
op_5XY0(e, x, y) == IF e.v_reg[x] = e.v_reg[y] THEN skip(e) ELSE e

\* 6XNN - VX = NN
op_6XNN(e, x, nn) == [e EXCEPT !.v_reg[x] = nn]

\* 7XNN - VX += NN
op_7XNN(e, x, nn) == [e EXCEPT !.v_reg[x] = wrapping_add(e.v_reg[x], nn)]

\* 8XY0 - VX = VY
op_8XY0(e, x, y) == [e EXCEPT !.v_reg[x] = e.v_reg[y]]

\* 8XY1 - VX |= VY
op_8XY1(e, x, y) == [e EXCEPT !.v_reg[x] = bitor(e.v_reg[x], e.v_reg[y])]

\* 8XY2 - VX &= VY
op_8XY2(e, x, y) == [e EXCEPT !.v_reg[x] = bitand(e.v_reg[x], e.v_reg[y])]

\* 8XY3 - VX ^= VY
op_8XY3(e, x, y) == [e EXCEPT !.v_reg[x] = bitxor(e.v_reg[x], e.v_reg[y])]

\* v_reg[0xF] = vf; v_reg[x] = new_vx: the flag written first
set_vf_then_vx(e, x, new_vx, vf) == [e EXCEPT !.v_reg = [[e.v_reg EXCEPT ![15] = vf] EXCEPT ![x] = new_vx]]

\* v_reg[x] = new_vx; v_reg[0xF] = vf, in this order
set_vx_then_vf(e, x, new_vx, vf) == [e EXCEPT !.v_reg = [[e.v_reg EXCEPT ![x] = new_vx] EXCEPT ![15] = vf]]

\* 8XY4 - VX += VY, VF = carry
op_8XY4(e, x, y) == LET r == overflowing_add(e.v_reg[x], e.v_reg[y]) IN set_vx_then_vf(e, x, r[1], IF r[2] THEN 1 ELSE 0)

\* 8XY5 - VX -= VY, VF = not borrow
op_8XY5(e, x, y) == LET r == overflowing_sub(e.v_reg[x], e.v_reg[y]) IN set_vx_then_vf(e, x, r[1], IF r[2] THEN 0 ELSE 1)

\* 8XY6 with the flag read after the shift
op_8XY6_flag_after_shift(e, x) == LET shifted == shr1(e.v_reg[x]) IN set_vx_then_vf(e, x, shifted, shifted % 2)

\* 8XY6 - VX >>= 1, VF = the bit shifted out
op_8XY6(e, x) == LET lsb == e.v_reg[x] % 2 IN set_vx_then_vf(e, x, shr1(e.v_reg[x]), lsb)

\* 8XY7 - VX = VY - VX, VF = not borrow
op_8XY7(e, x, y) == LET r == overflowing_sub(e.v_reg[y], e.v_reg[x]) IN set_vx_then_vf(e, x, r[1], IF r[2] THEN 0 ELSE 1)

\* 8XYE - VX <<= 1, VF = the bit shifted out
op_8XYE(e, x) == LET msb == (e.v_reg[x] \div 128) % 2 IN set_vx_then_vf(e, x, shl1(e.v_reg[x]), msb)

\* 9XY0 - skip next if VX != VY
op_9XY0(e, x, y) == IF e.v_reg[x] # e.v_reg[y] THEN skip(e) ELSE e

\* ANNN - I = NNN
op_ANNN(e, nnn) == [e EXCEPT !.i_reg = nnn]

\* BNNN with the sum reduced to 12 bits
op_BNNN_masked(e, nnn) == [e EXCEPT !.pc = (e.v_reg[0] + nnn) % 4096]

\* BNNN - jump to V0 + NNN
op_BNNN(e, nnn) == [e EXCEPT !.pc = e.v_reg[0] + nnn]

\* CXNN - VX = rand() & NN; rng is the random byte drawn
op_CXNN(e, x, nn, rng) == [e EXCEPT !.v_reg[x] = bitand(rng, nn)]

(***************************************************************************)
(* DXYN - draw sprite.  d = [screen, flipped] is the framebuffer and the   *)
(* collision flag as the two loops go.                                     *)
(***************************************************************************)
\* the index of the pixel for column x_line of row y_line, wrapped around
\* the screen
pixel_index(x_coord, y_coord, x_line, y_line) ==
    LET x == (x_coord + x_line) % SCREEN_WIDTH
        y == (y_coord + y_line) % SCREEN_HEIGHT
    IN  x + SCREEN_WIDTH * y

\* flipped = screen[idx]: the earlier collisions forgotten
collide_last_only(flipped, was_on) == was_on

\* flipped |= screen[idx]
collide(flipped, was_on) == flipped \/ was_on

\* pixels & (1 << x_line) != 0: the least significant bit first
sprite_bit_lsb_first(pixels, x_line) == Bit(pixels, x_line) = 1

\* pixels & (0b1000_0000 >> x_line) != 0
sprite_bit(pixels, x_line) == Bit(pixels, 7 - x_line) = 1

\* flipped |= screen[idx]; screen[idx] ^= true
flip_pixel(d, idx) ==
    [screen |-> toggle(d.screen, idx), flipped |-> collide(d.flipped, pixel(d.screen, idx))]

RECURSIVE draw_row(_, _, _, _, _, _)
\* the inner loop, from column x_line on; d = [screen, flipped] is the
\* framebuffer and the collision flag so far, and the result is the d after
\* column 7.  The d of the next iteration is bound as a value before the
\* iteration is entered.
draw_row(d, pixels, x_coord, y_coord, y_line, x_line) ==
    IF x_line = 8
    THEN d
    ELSE IF ~sprite_bit(pixels, x_line)
    THEN draw_row(d, pixels, x_coord, y_coord, y_line, x_line + 1)
    ELSE LET idx == pixel_index(x_coord, y_coord, x_line, y_line)
         IN  CHOOSE r \in {draw_row(d2, pixels, x_coord, y_coord, y_line, x_line + 1) : d2 \in {flip_pixel(d, idx)}} : TRUE

RECURSIVE draw_rows(_, _, _, _, _, _)
\* the outer loop, from row y_line on, and the final write of VF.  The
\* row address i_reg + y_line is a u16 sum: past 65535 it panics under
\* overflow checks and wraps without them; an address past the ram panics.
draw_rows(e, d, x_coord, y_coord, num_rows, y_line) ==
    IF y_line = num_rows
    THEN [e EXCEPT !.screen = d.screen, !.v_reg[15] = IF d.flipped THEN 1 ELSE 0]
    ELSE IF e.i_reg + y_line >= U16 /\ overflow_checks
         THEN Panic([e EXCEPT !.screen = d.screen], "attempt to add with overflow")
         ELSE LET addr == (e.i_reg + y_line) % U16
              IN  IF addr >= RAM_SIZE
                  THEN Panic([e EXCEPT !.screen = d.screen], "index out of bounds")
                  ELSE CHOOSE r \in {draw_rows(e, d2, x_coord, y_coord, num_rows, y_line + 1) :
                                        d2 \in {draw_row(d, byte(e.ram, addr), x_coord, y_coord, y_line, 0)}} : TRUE

op_DXYN(e, x, y, n) == draw_rows(e, [screen |-> e.screen, flipped |-> FALSE], e.v_reg[x], e.v_reg[y], n, 0)

(***************************************************************************)
(* EX9E, EXA1, FX07, FX0A, FX15, FX18, FX1E, FX29                          *)
(***************************************************************************)
\* EX9E - skip if key VX pressed; keys[vx] panics for vx > 15
op_EX9E(e, x) == LET vx == e.v_reg[x] IN IF vx >= NUM_KEYS THEN Panic(e, "index out of bounds") ELSE IF e.keys[vx] THEN skip(e) ELSE e

\* EXA1 - skip if key VX not pressed
op_EXA1(e, x) == LET vx == e.v_reg[x] IN IF vx >= NUM_KEYS THEN Panic(e, "index out of bounds") ELSE IF ~e.keys[vx] THEN skip(e) ELSE e

\* FX07 - VX = DT
op_FX07(e, x) == [e EXCEPT !.v_reg[x] = e.dt]

RECURSIVE first_pressed(_, _)
\* the scan for i in 0..keys.len(): the first pressed key from i on, -1 if none
first_pressed(k, i) == IF i = NUM_KEYS THEN -1 ELSE IF k[i] THEN i ELSE first_pressed(k, i + 1)

\* FX0A without the rewind of pc when no key is pressed
op_FX0A_no_rewind(e, x) == LET i == first_pressed(e.keys, 0) IN IF i >= 0 THEN [e EXCEPT !.v_reg[x] = i] ELSE e

\* FX0A - wait for key press
op_FX0A(e, x) == LET i == first_pressed(e.keys, 0) IN IF i >= 0 THEN [e EXCEPT !.v_reg[x] = i] ELSE [e EXCEPT !.pc = e.pc - 2]

\* FX15 - DT = VX
op_FX15(e, x) == [e EXCEPT !.dt = e.v_reg[x]]

\* FX18 - ST = VX
op_FX18(e, x) == [e EXCEPT !.st = e.v_reg[x]]

\* FX1E - I += VX
op_FX1E(e, x) == [e EXCEPT !.i_reg = wrapping_add16(e.i_reg, e.v_reg[x])]

\* FX29 - set I to font address
op_FX29(e, x) == [e EXCEPT !.i_reg = e.v_reg[x] * 5]

(***************************************************************************)
(* FX33 - BCD of VX, computed in f32 as the code does.  A non-negative f32 *)
(* is [m, s], the value m / 2^s with m below 2^24 (or 2^24 after a round   *)
(* up): integers up to 255 are exact with s = 0.                           *)
(***************************************************************************)
\* u8 as f32
f32_from(v) == [m |-> v, s |-> 0]

RECURSIVE f32_scale(_, _, _)
\* the least s >= from with a * 2^s >= b * 2^23, for a > 0: the quotient
\* a / b then has its leading bit at 2^23 when scaled by 2^s
f32_scale(a, b, from) == IF a * Pow2(from) >= b * Pow2(23) THEN from ELSE f32_scale(a, b, from + 1)

\* a / b for integer-valued a >= 0, b > 0, rounded to nearest, ties to even
f32_div(a, b) ==
    IF a = 0
    THEN [m |-> 0, s |-> 0]
    ELSE LET s == f32_scale(a, b, 0)
             q == (a * Pow2(s)) \div b
             r == (a * Pow2(s)) % b
             up == 2 * r > b \/ (2 * r = b /\ q % 2 = 1)
         IN  [m |-> IF up THEN q + 1 ELSE q, s |-> s]

\* f % b for an integer b > 0 (exact)
f32_rem(f, b) == [m |-> f.m % (b * Pow2(f.s)), s |-> f.s]

\* f.floor()
f32_floor(f) == f.m \div Pow2(f.s)

\* (an integral f32) as u8: saturating
as_u8(v) == IF v > 255 THEN 255 ELSE IF v < 0 THEN 0 ELSE v

\* the tens without "% 10.0": vx / 10 as it is
bcd_tens_unreduced(vx) == as_u8(f32_floor(f32_div(vx, 10)))

bcd_hundreds(vx) == as_u8(f32_floor(f32_div(vx, 100)))
bcd_tens(vx) == as_u8(f32_floor(f32_rem(f32_div(vx, 10), 10)))
bcd_ones(vx) == as_u8(f32_floor(f32_rem(f32_from(vx), 10)))

\* the three stores happen in order; the first one past the ram panics
op_FX33(e, x) ==
    LET vx == e.v_reg[x]
        i == e.i_reg
    IN  IF i >= RAM_SIZE
        THEN Panic(e, "index out of bounds")
        ELSE IF i + 1 >= RAM_SIZE
        THEN Panic([e EXCEPT !.ram = store(e.ram, i, bcd_hundreds(vx))], "index out of bounds")
        ELSE IF i + 2 >= RAM_SIZE
        THEN Panic([e EXCEPT !.ram = store(store(e.ram, i, bcd_hundreds(vx)), i + 1, bcd_tens(vx))], "index out of bounds")
        ELSE [e EXCEPT !.ram = store(store(store(e.ram, i, bcd_hundreds(vx)), i + 1, bcd_tens(vx)), i + 2, bcd_ones(vx))]

(***************************************************************************)
(* FX55, FX65                                                              *)
(***************************************************************************)
\* how many of the x + 1 accesses ram[i + idx], idx = 0..x, are in bounds
in_bounds_count(i, x) == IF i + x < RAM_SIZE THEN x + 1 ELSE IF i >= RAM_SIZE THEN 0 ELSE RAM_SIZE - i

\* FX55 with the exclusive range 0..x: VX itself is not stored
op_FX55_exclusive(e, x) ==
    LET i == e.i_reg
        k == IF x = 0 THEN 0 ELSE in_bounds_count(i, x - 1)
        stored == [e EXCEPT !.ram = copy_from_slice(e.ram, i, [idx \in 1..k |-> e.v_reg[idx - 1]])]
    IN  IF k < x THEN Panic(stored, "index out of bounds") ELSE stored

\* FX55 - store V0..VX at I; the first store past the ram panics
op_FX55(e, x) ==
    LET i == e.i_reg
        k == in_bounds_count(i, x)
        stored == [e EXCEPT !.ram = copy_from_slice(e.ram, i, [idx \in 1..k |-> e.v_reg[idx - 1]])]
    IN  IF k < x + 1 THEN Panic(stored, "index out of bounds") ELSE stored

\* FX65 - load V0..VX from I; the first load past the ram panics
op_FX65(e, x) ==
    LET i == e.i_reg
        k == in_bounds_count(i, x)
        loaded == [e EXCEPT !.v_reg = [r \in 0..(NUM_REGISTERS - 1) |-> IF r < k THEN byte(e.ram, i + r) ELSE e.v_reg[r]]]
    IN  IF k < x + 1 THEN Panic(loaded, "index out of bounds") ELSE loaded

\* a fallback arm that ignores the word and goes on
op_unimplemented_ignored(e, op) == e

\* the fallback arm: unimplemented!("Unimplemented opcode {}", op)
op_unimplemented(e, op) == [e EXCEPT !.panic = [msg |-> "not implemented: Unimplemented opcode", op |-> op]]

(***************************************************************************)
(* Emu::execute: the match on (digit1, digit2, digit3, digit4)             *)
(***************************************************************************)
execute(e, op, rng) ==
    LET d1 == digit1(op)
        x == digit2(op)
        y == digit3(op)
        n == digit4(op)
        nn == op % 256
        nnn == op % 4096
    IN  CASE d1 = 0 /\ x = 0 /\ y = 0 /\ n = 0 -> e
          [] d1 = 0 /\ x = 0 /\ y = 14 /\ n = 0 -> op_00E0(e)
          [] d1 = 0 /\ x = 0 /\ y = 14 /\ n = 14 -> op_00EE(e)
          [] d1 = 1 -> op_1NNN(e, nnn)
          [] d1 = 2 -> op_2NNN(e, nnn)
          [] d1 = 3 -> op_3XNN(e, x, nn)
          [] d1 = 4 -> op_4XNN(e, x, nn)
          [] d1 = 5 /\ n = 0 -> op_5XY0(e, x, y)
          [] d1 = 6 -> op_6XNN(e, x, nn)
          [] d1 = 7 -> op_7XNN(e, x, nn)
          [] d1 = 8 /\ n = 0 -> op_8XY0(e, x, y)
          [] d1 = 8 /\ n = 1 -> op_8XY1(e, x, y)
          [] d1 = 8 /\ n = 2 -> op_8XY2(e, x, y)
          [] d1 = 8 /\ n = 3 -> op_8XY3(e, x, y)
          [] d1 = 8 /\ n = 4 -> op_8XY4(e, x, y)
          [] d1 = 8 /\ n = 5 -> op_8XY5(e, x, y)
          [] d1 = 8 /\ n = 6 -> op_8XY6(e, x)
          [] d1 = 8 /\ n = 7 -> op_8XY7(e, x, y)
          [] d1 = 8 /\ n = 14 -> op_8XYE(e, x)
          [] d1 = 9 /\ n = 0 -> op_9XY0(e, x, y)
          [] d1 = 10 -> op_ANNN(e, nnn)
          [] d1 = 11 -> op_BNNN(e, nnn)
          [] d1 = 12 -> op_CXNN(e, x, nn, rng)
          [] d1 = 13 -> op_DXYN(e, x, y, n)
          [] d1 = 14 /\ y = 9 /\ n = 14 -> op_EX9E(e, x)
          [] d1 = 14 /\ y = 10 /\ n = 1 -> op_EXA1(e, x)
          [] d1 = 15 /\ y = 0 /\ n = 7 -> op_FX07(e, x)
          [] d1 = 15 /\ y = 0 /\ n = 10 -> op_FX0A(e, x)
          [] d1 = 15 /\ y = 1 /\ n = 5 -> op_FX15(e, x)
          [] d1 = 15 /\ y = 1 /\ n = 8 -> op_FX18(e, x)
          [] d1 = 15 /\ y = 1 /\ n = 14 -> op_FX1E(e, x)
          [] d1 = 15 /\ y = 2 /\ n = 9 -> op_FX29(e, x)
          [] d1 = 15 /\ y = 3 /\ n = 3 -> op_FX33(e, x)
          [] d1 = 15 /\ y = 5 /\ n = 5 -> op_FX55(e, x)
          [] d1 = 15 /\ y = 6 /\ n = 5 -> op_FX65(e, x)
          [] OTHER -> op_unimplemented(e, op)

(***************************************************************************)
(* Emu::tick                                                               *)
(***************************************************************************)
\* fetch, then execute unless the fetch panicked
tick(e, rng) == LET f == fetch(e) IN IF Running(f.emu) THEN execute(f.emu, f.op, rng) ELSE f.emu

(***************************************************************************)
(* The host's calls.  Every method of Emu is one action; after a panic no  *)
(* method runs.  last records the call just made: for tick, the word it    *)
(* fetched (-1 when the fetch itself panicked).                            *)
(***************************************************************************)
\* bounds of the model
MaxTicks == 6
MaxTimer == 2

\* the word tick() will fetch, -1 when the fetch is out of bounds
next_op == IF pc + 1 < RAM_SIZE THEN byte(ram, pc) * 256 + byte(ram, pc + 1) ELSE -1

\* the bytes random() can return; only CXNN draws one
random_bytes == IF next_op >= 0 /\ digit1(next_op) = 12 THEN 0..255 ELSE {0}

Call(name, op, arg) == [call |-> name, op |-> op, arg |-> arg]

\* the instruction word with the given nibbles, and with a byte operand
word(d1, d2, d3, d4) == 4096 * d1 + 256 * d2 + 16 * d3 + d4
word_nn(d1, x, nn) == 4096 * d1 + 256 * x + nn

\* programs the host loads: a timer set-up followed by a key wait, and a
\* subroutine that draws the glyph "1" at (0, 0)
ROM_KEYWAIT == << 96, MaxTimer, 240, 21, 240, 24, 245, 10, 18, 8 >>
ROM_DRAW == << 34, 6, 18, 2, 0, 224, 160, 5, 208, 5, 0, 238 >>
ROMS == << ROM_KEYWAIT, ROM_DRAW >>

\* the keys the host presses and releases
KEYS == {0, 7, 15}

Tick ==
    /\ Running(Self)
    /\ \E rng \in random_bytes : Becomes(tick(Self, rng))
    /\ last' = Call("tick", next_op, 0)
    /\ ticks' = ticks + 1
    /\ UNCHANGED << overflow_checks, initial >>

TickTimers ==
    /\ Running(Self)
    /\ Becomes(tick_timers(Self))
    /\ last' = Call("tick_timers", -1, 0)
    /\ UNCHANGED << overflow_checks, ticks, initial >>

Keypress ==
    /\ Running(Self)
    /\ \E idx \in KEYS, pressed \in BOOLEAN :
          /\ Becomes(keypress(Self, idx, pressed))
          /\ last' = Call("keypress", -1, idx)
    /\ UNCHANGED << overflow_checks, ticks, initial >>

Load ==
    /\ Running(Self)
    /\ \E r \in 1..Len(ROMS) :
          /\ Becomes(load(Self, ROMS[r]))
          /\ last' = Call("load", -1, r)
    /\ UNCHANGED << overflow_checks, ticks, initial >>

\* last.arg: the number of tick() calls the reset state had seen
Reset ==
    /\ Running(Self)
    /\ Becomes(reset(Self))
    /\ last' = Call("reset", -1, ticks)
    /\ ticks' = 0
    /\ UNCHANGED << overflow_checks, initial >>

\* the run begins with the Emu value e, built with or without overflow checks
Begin(e, how) ==
    /\ Is(e)
    /\ overflow_checks \in BOOLEAN
    /\ last = Call(how, -1, 0)
    /\ ticks = 0
    /\ initial = e

(***************************************************************************)
(* Spec: the host's calls in any order from Emu::new(), with at most       *)
(* MaxTicks tick() calls between resets.                                   *)
(***************************************************************************)
Init == Begin(new, "new")

TickBounded == ticks < MaxTicks /\ Tick

Next == TickBounded \/ TickTimers \/ Keypress \/ Load \/ Reset

Spec == Init /\ [][Next]_vars

(***************************************************************************)
(* Runs of single instructions.  Each begins with a machine that holds a   *)
(* short program at START_ADDR and chosen register values, and executes    *)
(* it.  Such a machine is one the host can reach from Emu::new(): it runs  *)
(* a set-up program (6XNN, ANNN, DXYN, ... ending in a jump to START_ADDR) *)
(* and then loads the program, padded with zero bytes to the length of the *)
(* set-up program.                                                         *)
(***************************************************************************)
\* the two bytes of an instruction word, big-endian
bytes_of(w) == << w \div 256, w % 256 >>

\* registers: VX = a, VY = b, VF = f (X, then Y, taking precedence), and
\* 16 + r in every other register r
regs_with(x, a, y, b, f) == [r \in 0..(NUM_REGISTERS - 1) |-> IF r = x THEN a ELSE IF r = y THEN b ELSE IF r = 15 THEN f ELSE 16 + r]

\* Emu::new(), then the registers and I set up, then load(prog)
machine(prog, regs, i) == [load(new, prog) EXCEPT !.v_reg = regs, !.i_reg = i]

TickOnce == ticks < 1 /\ Tick

(***************************************************************************)
(* SpecAlu: one arithmetic, shift or skip instruction.                     *)
(***************************************************************************)
\* register indices and register values tried
REGS == {0, 3, 15}
VALS == {0, 1, 2, 100, 127, 128, 200, 255}
FLAGS == {0, 1, 77}

ARITH_WORDS == {word(8, x, y, n) : x \in REGS, y \in REGS, n \in {4, 5, 7}}
SHIFT_WORDS == {word(8, x, y, n) : x \in REGS, y \in REGS, n \in {6, 14}}
SKIP_XY_WORDS == {word(d, x, y, 0) : x \in REGS, y \in REGS, d \in {5, 9}}
NN_WORDS == {word_nn(d, x, nn) : d \in {3, 4, 7}, x \in REGS, nn \in VALS}

\* the machine about to execute w with VX = a, VY = b, VF = f
before(w, a, b, f) == machine(bytes_of(w), regs_with(digit2(w), a, digit3(w), b, f), 0)

InitAlu ==
    \/ \E w \in ARITH_WORDS \cup SKIP_XY_WORDS, a \in VALS, b \in VALS, f \in FLAGS : Begin(before(w, a, b, f), "load")
    \/ \E w \in SHIFT_WORDS, a \in 0..255, f \in FLAGS : Begin(before(w, a, 7, f), "load")
    \/ \E w \in NN_WORDS, a \in VALS, f \in FLAGS : Begin(before(w, a, 7, f), "load")

NextAlu == TickOnce

SpecAlu == InitAlu /\ [][NextAlu]_vars

(***************************************************************************)
(* SpecDraw: the same DXYN twice in a row.  The sprite is read from the    *)
(* font, from bytes behind the program, from zeroed memory, or from the    *)
(* last two bytes of the ram (where a sprite of 3 rows or more runs off    *)
(* the end).                                                               *)
(***************************************************************************)
DRAW_WORDS == {word(13, xy[1], xy[2], n) : xy \in {<<0, 3>>, <<3, 3>>, <<15, 0>>, <<0, 15>>}, n \in {0, 1, 5, 15}}
DRAW_XS == {0, 60, 63, 255}
DRAW_YS == {0, 30, 255}
SPRITE == << 255, 129, 0, 1, 128, 255, 24, 60, 126, 255, 170, 85, 255, 1, 128 >>
SPRITE_ADDRS == {0, START_ADDR + 4, 768, 4094}
ROW0 == 0..(SCREEN_WIDTH - 1)
SCREENS == {{}, ROW0, {p \in 0..(SCREEN_WIDTH * SCREEN_HEIGHT - 1) : p % 3 = 0}}

InitDraw ==
    \E w \in DRAW_WORDS, a \in DRAW_XS, b \in DRAW_YS, f \in {0, 1}, i \in SPRITE_ADDRS, scr \in SCREENS :
        Begin([machine(bytes_of(w) \o bytes_of(w) \o SPRITE, regs_with(digit2(w), a, digit3(w), b, f), i) EXCEPT !.screen = scr], "load")

TickTwice == ticks < 2 /\ Tick

NextDraw == TickTwice

SpecDraw == InitDraw /\ [][NextDraw]_vars

(***************************************************************************)
(* SpecBcd: one FX33, for every value of VX.  I points at the font, at the *)
(* instruction itself, at bytes behind it, at zeroed memory, at the last   *)
(* three bytes of the ram, or at its last two bytes or last byte (where    *)
(* the stores run off the end).                                            *)
(***************************************************************************)
BCD_WORDS == {word(15, x, 3, 3) : x \in REGS}
BCD_ADDRS == {0, START_ADDR, START_ADDR + 2, 768, RAM_SIZE - 3, RAM_SIZE - 2, RAM_SIZE - 1}
BCD_DATA == << 255, 1, 170 >>

InitBcd ==
    \E w \in BCD_WORDS, a \in 0..(U8 - 1), i \in BCD_ADDRS :
        Begin(machine(bytes_of(w) \o BCD_DATA, regs_with(digit2(w), a, digit2(w), a, 16 + 15), i), "load")

NextBcd == TickOnce

SpecBcd == InitBcd /\ [][NextBcd]_vars

(***************************************************************************)
(* SpecRun: the host's calls in any order from Emu::new(), as in Spec, with *)
(* programs that write through I = 0, jump to the last byte of the ram and *)
(* draw from the last byte of the ram.                                     *)
(***************************************************************************)
MaxRunTicks == 3

\* 6000 F033 F029: the BCD of V0 = 0 stored at I = 0, then I = glyph of V0
ROM_FONT == << 96, 0, 240, 51, 240, 41 >>
\* 1FFF: jump to 0xFFF
ROM_JUMP == << 31, 255 >>
\* AFFF D012: a sprite of two rows at I = 0xFFF
ROM_EDGE == << 175, 255, 208, 18 >>
PROGRAMS == << ROM_FONT, ROM_JUMP, ROM_EDGE >>

LoadProgram ==
    /\ Running(Self)
    /\ \E r \in 1..Len(PROGRAMS) :
          /\ Becomes(load(Self, PROGRAMS[r]))
          /\ last' = Call("load", -1, r)
    /\ UNCHANGED << overflow_checks, ticks, initial >>

TickRun == ticks < MaxRunTicks /\ Tick

NextRun == TickRun \/ TickTimers \/ Keypress \/ LoadProgram \/ Reset

SpecRun == Init /\ [][NextRun]_vars

(***************************************************************************)
(* SpecDecode: every 16-bit word as the first instruction of a program,    *)
(* followed by a second tick().  Register r holds r, so that EX9E and EXA1 *)
(* index an existing key, and I points at zeroed memory.  Of the CXNN      *)
(* words, each of which draws any of 256 random bytes, only those with NN  *)
(* in CXNN_MASKS are taken.                                                *)
(***************************************************************************)
CXNN_MASKS == {0, 15, 255}
WORDS == {w \in 0..(U16 - 1) : digit1(w) = 12 => w % 256 \in CXNN_MASKS}

InitDecode ==
    \E w \in WORDS : Begin(machine(bytes_of(w), [r \in 0..(NUM_REGISTERS - 1) |-> r], 768), "load")

NextDecode == TickTwice

SpecDecode == InitDecode /\ [][NextDecode]_vars

(***************************************************************************)
(* SpecCall: chains of nested calls.  The program call_chain(depth) holds, *)
(* for each level k < depth, the call 2NNN to level k + 1 at                *)
(* START_ADDR + 4k followed by a 00EE, and two 00EE at level depth: it      *)
(* calls depth deep, returns level by level, and then returns once more on *)
(* the empty stack.  With depth 17 the last call finds 16 return addresses *)
(* stacked.  Every run ends in a panic, so tick() needs no bound.          *)
(***************************************************************************)
CALL_DEPTHS == 0..(STACK_SIZE + 1)

call_chain(depth) ==
    [j \in 1..(4 * depth + 4) |->
        LET k == (j - 1) \div 4
            call == word(2, 0, 0, 0) + START_ADDR + 4 * (k + 1)
        IN  IF k < depth /\ (j - 1) % 4 < 2 THEN bytes_of(call)[((j - 1) % 4) + 1]
            ELSE IF j % 2 = 1 THEN 0 ELSE 238]

InitCall == \E depth \in CALL_DEPTHS : Begin(load(new, call_chain(depth)), "load")

NextCall == Tick

SpecCall == InitCall /\ [][NextCall]_vars

(***************************************************************************)
(* SpecAddr: one 1NNN, 2NNN, ANNN or BNNN, for every NNN.                  *)
(***************************************************************************)
ADDR_WORDS == {word(d, 0, 0, 0) + nnn : d \in {1, 2, 10, 11}, nnn \in 0..4095}
V0S == {0, 1, 255}

InitAddr == \E w \in ADDR_WORDS, a \in V0S : Begin(machine(bytes_of(w), regs_with(0, a, 0, a, 31), 768), "load")

NextAddr == TickOnce

SpecAddr == InitAddr /\ [][NextAddr]_vars

(***************************************************************************)
(* SpecLoad: load() of images of length 0, 2, 10, 3584 (the largest that   *)
(* fits) and 3585, in any order, between tick() calls and a keypress().    *)
(***************************************************************************)
\* 6007 F018 2208 0000 D005: V0 = 7, st = 7, a call to 0x208, a draw
IMG_SETUP == << 96, 7, 240, 24, 34, 8, 0, 0, 208, 5 >>
\* two zero bytes
IMG_ZEROS == << 0, 0 >>
\* 1200 (a jump to itself), zeros, and 9 in the last byte of the ram
IMG_FULL == [j \in 1..(RAM_SIZE - START_ADDR) |-> IF j = 1 THEN 18 ELSE IF j = RAM_SIZE - START_ADDR THEN 9 ELSE 0]
\* one byte more than fits, none of them zero
IMG_TOO_LONG == [j \in 1..(RAM_SIZE - START_ADDR + 1) |-> 255]
IMAGES == << << >>, IMG_ZEROS, IMG_SETUP, IMG_FULL, IMG_TOO_LONG >>

LoadImage ==
    /\ Running(Self)
    /\ \E r \in 1..Len(IMAGES) :
          /\ Becomes(load(Self, IMAGES[r]))
          /\ last' = Call("load", -1, r)
    /\ UNCHANGED << overflow_checks, ticks, initial >>

\* keypress(7, true)
KeyDown ==
    /\ Running(Self)
    /\ Becomes(keypress(Self, 7, TRUE))
    /\ last' = Call("keypress", -1, 7)
    /\ UNCHANGED << overflow_checks, ticks, initial >>

NextLoad == TickRun \/ KeyDown \/ LoadImage

SpecLoad == Init /\ [][NextLoad]_vars

(***************************************************************************)
(* SpecKeys: one EX9E or EXA1 for every value of VX, after any keypress()  *)
(* calls.                                                                  *)
(***************************************************************************)
KEY_WORDS == {word(14, x, 9, 14) : x \in REGS} \cup {word(14, x, 10, 1) : x \in REGS}

InitKeys ==
    \E w \in KEY_WORDS, a \in 0..(U8 - 1) : Begin(machine(bytes_of(w), regs_with(digit2(w), a, digit2(w), a, 31), 0), "load")

NextKeys == TickOnce \/ Keypress

SpecKeys == InitKeys /\ [][NextKeys]_vars

(***************************************************************************)
(* SpecRegs: the program FX55, 60C8, 7301, FX65 (store V0..VX, change V0   *)
(* and V3, load V0..VX), with I at the font, at the program itself, at     *)
(* zeroed memory, at the last 16 bytes of the ram and closer to its end    *)
(* (where the accesses of a large X run off the end).                      *)
(***************************************************************************)
REG_FILES == {[r \in 0..(NUM_REGISTERS - 1) |-> 16 + r], [r \in 0..(NUM_REGISTERS - 1) |-> 255 - r], [r \in 0..(NUM_REGISTERS - 1) |-> 0]}
REG_ADDRS == {0, START_ADDR, 768, RAM_SIZE - 16, RAM_SIZE - 4, RAM_SIZE - 1}

store_load(x) == bytes_of(word(15, x, 5, 5)) \o << 96, 200, 115, 1 >> \o bytes_of(word(15, x, 6, 5))

InitRegs == \E x \in REGS, regs \in REG_FILES, i \in REG_ADDRS : Begin(machine(store_load(x), regs, i), "load")

NextRegs == ticks < 4 /\ Tick

SpecRegs == InitRegs /\ [][NextRegs]_vars

(***************************************************************************)
(* SpecFlag: one 8XY4, 8XY5, 8XY7, 8XY6, 8XYE or DXYN, with X or Y the     *)
(* flag register among others.                                             *)
(***************************************************************************)
InitFlag ==
    \/ \E w \in ARITH_WORDS \cup SHIFT_WORDS, a \in VALS, b \in VALS, f \in FLAGS : Begin(before(w, a, b, f), "load")
    \/ InitDraw

NextFlag == TickOnce

SpecFlag == InitFlag /\ [][NextFlag]_vars

(***************************************************************************)
(* Properties.  A step is a tick() that fetched the word w when             *)
(* last'.call = "tick" and next_op = w (next_op read before the step).     *)
(***************************************************************************)
Ticked == last'.call = "tick"

pressed_keys == {k \in 0..(NUM_KEYS - 1) : keys[k]}
lowest(S) == CHOOSE k \in S : \A j \in S : k <= j

is_FX0A(w) == w >= 0 /\ digit1(w) = 15 /\ digit3(w) = 0 /\ digit4(w) = 10

\* C1: a tick() that executes FX0A while no key is pressed leaves every
\* field of the Emu as it was (pc included), however often it is repeated;
\* with a key pressed it stores the lowest pressed key index in register X
\* and leaves pc 2 above the address of the FX0A word.
C1_KeyWaitRetry ==
    [][(Ticked /\ is_FX0A(next_op)) =>
          IF pressed_keys = {}
          THEN Self' = Self
          ELSE v_reg'[digit2(next_op)] = lowest(pressed_keys) /\ pc' = pc + 2]_vars

\* C1 witness: the key wait of ROM_KEYWAIT has ended on its third execution,
\* with keys 7 and 15 pressed and key 0 not: V5 holds 7 and pc is past it.
C1_Witness ==
    /\ last.call = "tick" /\ is_FX0A(last.op)
    /\ ticks = 6 /\ pc = START_ADDR + 8
    /\ ~keys[0] /\ keys[7] /\ keys[15]
    /\ v_reg[5] = 7

\* C9: tick_timers() takes 1 off each timer that is above 0, leaves a timer
\* at 0 where it is, and changes nothing else.
C9_TimerFloor ==
    [][last'.call = "tick_timers" =>
          /\ dt' = (IF dt > 0 THEN dt - 1 ELSE 0)
          /\ st' = (IF st > 0 THEN st - 1 ELSE 0)
          /\ UNCHANGED << pc, ram, screen, v_reg, i_reg, sp, stack, keys, panic >>]_vars

\* C9 witness: tick_timers() has run while FX0A is being retried (no key
\* pressed, the wait executed at least twice), with the delay timer already
\* at 0 and the sound timer still counting.
C9_Witness ==
    /\ last.call = "tick_timers"
    /\ is_FX0A(next_op) /\ pressed_keys = {} /\ ticks >= 5
    /\ dt = 0 /\ st = 1

\* C10: after reset() the Emu equals Emu::new() in every field, and a
\* further reset() would leave it so.
C10_ResetIsNew == last.call = "reset" => (Self = new /\ reset(Self) = Self)

\* C10 witness: reset() has run on a machine that had executed 5 ticks or more.
C10_Witness == last.call = "reset" /\ last.arg >= 5 /\ Self = new

\* the operands of the word about to be fetched, and the values of VX and
\* VY before the step
X == digit2(next_op)
Y == digit3(next_op)
NN == next_op % 256
VX == v_reg[X]
VY == v_reg[Y]

is_8XYN(w, n) == w >= 0 /\ digit1(w) = 8 /\ digit4(w) = n
is_DNNN(w, d) == w >= 0 /\ digit1(w) = d
is_DXY0(w, d) == w >= 0 /\ digit1(w) = d /\ digit4(w) = 0

\* what 8XY4, 8XY5, 8XY7 leave in VF, and what 7XNN leaves in VX
ArithFlags ==
    /\ (Ticked /\ is_8XYN(next_op, 4)) => (v_reg'[15] = 1 <=> VX + VY >= 256)
    /\ (Ticked /\ is_8XYN(next_op, 5)) => (v_reg'[15] = 0 <=> VX < VY)
    /\ (Ticked /\ is_8XYN(next_op, 7)) => (v_reg'[15] = 0 <=> VY < VX)
    /\ (Ticked /\ is_DNNN(next_op, 7)) => v_reg'[X] = (VX + NN) % 256

\* what 8XY4, 8XY5, 8XY7 leave in VX
ArithResult ==
    /\ (Ticked /\ is_8XYN(next_op, 4)) => v_reg'[X] = (VX + VY) % 256
    /\ (Ticked /\ is_8XYN(next_op, 5)) => v_reg'[X] = (VX - VY + 256) % 256
    /\ (Ticked /\ is_8XYN(next_op, 7)) => v_reg'[X] = (VY - VX + 256) % 256

\* C5 as amended: for every X, Y and all register values, 8XY4 leaves
\* VF = 1 iff Vx + Vy >= 256, 8XY5 leaves VF = 0 iff Vx < Vy, 8XY7 leaves
\* VF = 0 iff Vy < Vx, and 7XNN leaves (Vx + NN) mod 256 in register X;
\* for X other than 15, register X holds (Vx + Vy) mod 256 after 8XY4,
\* (Vx - Vy) mod 256 after 8XY5 and (Vy - Vx) mod 256 after 8XY7.
C5_Arithmetic == [][ArithFlags /\ (X # 15 => ArithResult)]_vars

\* C5 as stated: the same with register X holding the result for every X,
\* 15 included.
C5_AsStated == [][ArithFlags /\ ArithResult]_vars

\* C5 witness: 8035 has run with V0 = 1 and V3 = 2: V0 = 255 and VF = 0.
C5_Witness ==
    /\ last.call = "tick" /\ last.op = word(8, 0, 3, 5)
    /\ initial.v_reg[0] = 1 /\ initial.v_reg[3] = 2
    /\ v_reg[0] = 255 /\ v_reg[15] = 0

\* what 8XY6 and 8XYE leave in VF and, for X other than 15, in VX
ShiftResult ==
    /\ (Ticked /\ is_8XYN(next_op, 6)) => (v_reg'[15] = VX % 2 /\ (X # 15 => v_reg'[X] = VX \div 2))
    /\ (Ticked /\ is_8XYN(next_op, 14)) => (v_reg'[15] = (VX \div 128) % 2 /\ (X # 15 => v_reg'[X] = (2 * VX) % 256))

\* C6 as amended: for every X and every value of Vx, 8XY6 leaves VF = bit 0
\* of Vx and 8XYE leaves VF = bit 7 of Vx; for X other than 15 register X
\* then holds floor(Vx / 2) resp. (2 * Vx) mod 256; every register other
\* than X and 15 keeps its value, so register Y is changed only when Y is
\* X or 15, and its value has no part in the result.
C6_Shift ==
    [][/\ ShiftResult
       /\ (Ticked /\ (is_8XYN(next_op, 6) \/ is_8XYN(next_op, 14))) =>
              \A r \in 0..(NUM_REGISTERS - 1) : (r # X /\ r # 15) => v_reg'[r] = v_reg[r]]_vars

\* C6 as stated: the same with register Y unchanged whatever Y is.
C6_AsStated ==
    [][/\ ShiftResult
       /\ (Ticked /\ (is_8XYN(next_op, 6) \/ is_8XYN(next_op, 14))) => v_reg'[Y] = VY]_vars

\* C6 witness: 830E has run with V3 = 255: V3 = 254 and VF = 1.
C6_Witness ==
    /\ last.call = "tick" /\ last.op = word(8, 3, 0, 14)
    /\ initial.v_reg[3] = 255
    /\ v_reg[3] = 254 /\ v_reg[15] = 1

\* C7: a tick() that executes 3XNN leaves pc 4 above its value before the
\* tick when Vx = NN and 2 above otherwise; 4XNN skips iff Vx # NN, 5XY0
\* iff Vx = Vy, 9XY0 iff Vx # Vy; nothing but pc changes.
C7_Skip ==
    [][/\ (Ticked /\ is_DNNN(next_op, 3)) => pc' = pc + (IF VX = NN THEN 4 ELSE 2)
       /\ (Ticked /\ is_DNNN(next_op, 4)) => pc' = pc + (IF VX # NN THEN 4 ELSE 2)
       /\ (Ticked /\ is_DXY0(next_op, 5)) => pc' = pc + (IF VX = VY THEN 4 ELSE 2)
       /\ (Ticked /\ is_DXY0(next_op, 9)) => pc' = pc + (IF VX # VY THEN 4 ELSE 2)
       /\ (Ticked /\ (is_DNNN(next_op, 3) \/ is_DNNN(next_op, 4) \/ is_DXY0(next_op, 5) \/ is_DXY0(next_op, 9))) =>
              UNCHANGED << ram, screen, v_reg, i_reg, sp, stack, keys, dt, st, panic >>]_vars

\* C7 witness: 4380 has run with V3 = 127, and has skipped.
C7_Witness ==
    /\ last.call = "tick" /\ last.op = word_nn(4, 3, 128)
    /\ v_reg[3] = 127
    /\ pc = START_ADDR + 4

\* DXYN about to be fetched: its row count, whether its rows lie inside the
\* ram, and the pixels it is to toggle: (Vx + col) mod 64, (Vy + row) mod 32
\* for every row below N and every col in 0..7 with bit 7 - col of
\* mem[I + row] set
N == next_op % 16
Drawing == Ticked /\ is_DNNN(next_op, 13) /\ i_reg + N <= RAM_SIZE
sprite_cols(row) == {col \in 0..7 : (byte(ram, i_reg + row) \div (2 ^ (7 - col))) % 2 = 1}
sprite_pixels == UNION {{((VX + col) % 64) + 64 * ((VY + row) % 32) : col \in sprite_cols(row)} : row \in 0..(N - 1)}

\* C2: for every Vx, Vy, N and framebuffer, a DXYN whose N rows lie inside
\* the ram toggles exactly the pixels ((Vx + col) mod 64, (Vy + row) mod 32),
\* row < N, col < 8, for which bit 7 - col of mem[I + row] is 1; every
\* other pixel keeps its value, and I and the memory are not modified.
C2_SpriteDraw ==
    [][Drawing =>
          /\ screen' = (screen \ sprite_pixels) \cup (sprite_pixels \ screen)
          /\ i_reg' = i_reg
          /\ ram' = ram]_vars

\* C2 witness: D031 has drawn the row 0xFF at x = 63, y = 0 on an empty
\* screen: columns 63, 0, 1, ..., 6 of row 0 are lit and nothing else is.
C2_Witness ==
    /\ last.call = "tick" /\ last.op = word(13, 0, 3, 1) /\ ticks = 1
    /\ initial.screen = {} /\ i_reg = START_ADDR + 4
    /\ initial.v_reg[0] = 63 /\ initial.v_reg[3] = 0
    /\ screen = {63} \cup 0..6

\* C3: after every DXYN (its rows inside the ram), VF is 1 if a pixel that
\* was on before has been turned off and 0 otherwise, whatever VF held and
\* whichever registers X and Y are.
C3_Collision == [][Drawing => v_reg'[15] = (IF sprite_pixels \cap screen # {} THEN 1 ELSE 0)]_vars

\* C3 witness: a 15-row draw from the font with X = 15 has collided on the
\* striped screen; VF was 0 before and is 1 now.
C3_Witness ==
    /\ last.call = "tick" /\ last.op = word(13, 15, 0, 15) /\ ticks = 1
    /\ initial.screen # {} /\ initial.screen # ROW0
    /\ initial.v_reg[15] = 0 /\ i_reg = 0
    /\ v_reg[15] = 1

\* C4: when the second of two identical DXYN draws the same sprite (same
\* I, N and sprite bytes) at the origin of the first, it leaves the
\* framebuffer as it was before the first; if the pixels of the sprite were
\* all off then and the sprite has a set bit, VF is 0 after the first draw
\* and 1 after the second.
C4_DoubleDraw ==
    [][(/\ Drawing /\ ticks = 1 /\ last.call = "tick" /\ last.op = next_op
        /\ VX = initial.v_reg[X] /\ VY = initial.v_reg[Y]
        /\ i_reg = initial.i_reg /\ ram = initial.ram) =>
          /\ screen' = initial.screen
          /\ (sprite_pixels # {} /\ sprite_pixels \cap initial.screen = {}) => (v_reg[15] = 0 /\ v_reg'[15] = 1)]_vars

\* C4 witness: the glyph at I = 0 has been drawn twice at (60, 30) on an
\* empty screen, wrapping in both directions: the screen is empty again and
\* VF = 1.
C4_Witness ==
    /\ last.call = "tick" /\ last.op = word(13, 0, 3, 5) /\ ticks = 2
    /\ i_reg = 0 /\ v_reg[0] = 60 /\ v_reg[3] = 30
    /\ initial.screen = {} /\ screen = {}
    /\ v_reg[15] = 1

is_FX33(w) == w >= 0 /\ digit1(w) = 15 /\ w % 256 = 51

\* C8: for every VX in 0..255, an FX33 whose three bytes I, I+1, I+2 lie
\* inside the ram leaves VX div 100 in mem[I], (VX div 10) mod 10 in
\* mem[I+1] and VX mod 10 in mem[I+2]; every other byte of the memory, every
\* register, I, sp and both timers are as before.
C8_Bcd ==
    [][(Ticked /\ is_FX33(next_op) /\ i_reg + 2 < RAM_SIZE) =>
          /\ byte(ram', i_reg) = VX \div 100
          /\ byte(ram', i_reg + 1) = (VX \div 10) % 10
          /\ byte(ram', i_reg + 2) = VX % 10
          /\ 100 * byte(ram', i_reg) + 10 * byte(ram', i_reg + 1) + byte(ram', i_reg + 2) = VX
          /\ \A a \in (DOMAIN ram \cup DOMAIN ram') \ {i_reg, i_reg + 1, i_reg + 2} : byte(ram', a) = byte(ram, a)
          /\ v_reg' = v_reg /\ i_reg' = i_reg
          /\ sp' = sp /\ dt' = dt /\ st' = st]_vars

\* C8 witness: F033 with V0 = 255 and I = 0 has overwritten the first
\* three bytes of the font (F0 90 90) with 2, 5, 5.
C8_Witness ==
    /\ last.call = "tick" /\ last.op = word(15, 0, 3, 3) /\ ticks = 1
    /\ initial.v_reg[0] = 255 /\ i_reg = 0
    /\ byte(initial.ram, 0) = 240
    /\ byte(ram, 0) = 2 /\ byte(ram, 1) = 5 /\ byte(ram, 2) = 5

is_FXNN(w, nn) == w >= 0 /\ digit1(w) = 15 /\ w % 256 = nn

\* C11: in every state reached from new() by load, keypress, tick,
\* tick_timers and reset the memory bytes 0..79 are the built-in font; and
\* after an FX29 with VX = n, n in 0..15, I is 5 * n and the five bytes at I
\* are the glyph of the digit n.
C11_FontPermanent ==
    /\ \A a \in 0..(FONTSET_SIZE - 1) : byte(ram, a) = FONTSET[a + 1]
    /\ (last.call = "tick" /\ is_FXNN(last.op, 41) /\ v_reg[digit2(last.op)] < 16) =>
          /\ i_reg = 5 * v_reg[digit2(last.op)]
          /\ \A k \in 0..4 : byte(ram, i_reg + k) = FONTSET[i_reg + k + 1]

\* C13: every address a tick() reads or writes lies inside the ram: the
\* two fetch bytes at pc and pc + 1, the sprite rows I .. I + N - 1 of DXYN,
\* the bytes I .. I + 2 of FX33 and the bytes I .. I + X of FX55 and FX65;
\* no tick() ends in an out-of-range access.
C13_InBounds ==
    [][Ticked =>
          /\ pc + 1 < RAM_SIZE
          /\ is_DNNN(next_op, 13) => i_reg + N <= RAM_SIZE
          /\ is_FXNN(next_op, 51) => i_reg + 2 < RAM_SIZE
          /\ (is_FXNN(next_op, 85) \/ is_FXNN(next_op, 101)) => i_reg + X < RAM_SIZE
          /\ panic'.msg # "index out of bounds"]_vars

\* the rows of the instruction table, by the nibbles of the word
in_table(w) ==
    LET d1 == w \div 4096
        d2 == (w \div 256) % 16
        d3 == (w \div 16) % 16
        d4 == w % 16
    IN  \/ d1 = 0 /\ w \in {0, 224, 238}
        \/ d1 \in {1, 2, 3, 4, 6, 7, 10, 11, 12, 13}
        \/ d1 \in {5, 9} /\ d4 = 0
        \/ d1 = 8 /\ d4 \in {0, 1, 2, 3, 4, 5, 6, 7, 14}
        \/ d1 = 14 /\ w % 256 \in {158, 161}
        \/ d1 = 15 /\ w % 256 \in {7, 10, 21, 24, 30, 41, 51, 85, 101}

Unimplemented(p) == p.msg = "not implemented: Unimplemented opcode"

\* C12: a tick() ends in the unimplemented-opcode failure, carrying the
\* word it fetched, exactly when the word matches no row of the instruction
\* table; the failing tick() leaves registers, I, memory, stack, sp, timers,
\* keys and framebuffer as they were, and no call runs after the failure.
C12_Unimplemented ==
    [][/\ ~Unimplemented(panic)
       /\ (Ticked /\ next_op >= 0) =>
             /\ Unimplemented(panic') <=> ~in_table(next_op)
             /\ Unimplemented(panic') =>
                   /\ panic'.op = next_op
                   /\ v_reg' = v_reg /\ i_reg' = i_reg /\ ram' = ram
                   /\ stack' = stack /\ sp' = sp /\ dt' = dt /\ st' = st
                   /\ keys' = keys /\ screen' = screen]_vars

\* C12 witness: 5011 (5XYN with N = 1) has failed with the word 0x5011.
C12_Witness ==
    /\ last.call = "tick" /\ last.op = word(5, 0, 1, 1)
    /\ Unimplemented(panic) /\ panic.op = word(5, 0, 1, 1)
    /\ v_reg = initial.v_reg /\ ram = initial.ram

is_2NNN(w) == w >= 0 /\ digit1(w) = 2
is_00EE(w) == w = 238

\* C14: sp is in 0..16 in every state; a 2NNN with 16 return addresses
\* stacked and a 00EE with an empty stack each fail, leaving sp in 0..16
\* and the stack as it was.
C14_StackInRange ==
    [][/\ sp \in 0..STACK_SIZE /\ sp' \in 0..STACK_SIZE
       /\ (Ticked /\ ((is_2NNN(next_op) /\ sp = STACK_SIZE) \/ (is_00EE(next_op) /\ sp = 0))) =>
             /\ panic' # NoPanic
             /\ stack' = stack]_vars

\* in call_chain the code of nesting level k lies at START_ADDR + 4k ..
\* START_ADDR + 4k + 3, and the call made at level k returns to
\* START_ADDR + 4k + 2: sp is the level of pc and slot k holds the return
\* address of the call made at level k
ChainStack(p, s, stk) ==
    /\ s = (p - START_ADDR) \div 4
    /\ \A k \in 0..(s - 1) : stk[k] = START_ADDR + 4 * k + 2

\* C17: a 2NNN fetched from A with fewer than 16 addresses stacked stores
\* A + 2 in slot sp, leaves the other slots, adds 1 to sp and sets pc = NNN;
\* a 00EE with sp > 0 sets pc to slot sp - 1, subtracts 1 from sp and leaves
\* the slots; so in a chain of calls nested up to 16 deep every 00EE
\* resumes behind its matching 2NNN and sp is the number of calls not yet
\* returned.
C17_CallReturn ==
    [][/\ (Ticked /\ is_2NNN(next_op) /\ sp < STACK_SIZE) =>
             /\ stack' = [stack EXCEPT ![sp] = pc + 2]
             /\ sp' = sp + 1
             /\ pc' = next_op % 4096
       /\ (Ticked /\ is_00EE(next_op) /\ sp > 0) =>
             /\ pc' = stack[sp - 1]
             /\ sp' = sp - 1
             /\ stack' = stack
       /\ ChainStack(pc, sp, stack)
       /\ panic' = NoPanic => ChainStack(pc', sp', stack')]_vars

\* C17 witness: after 16 nested calls the first 00EE has returned behind
\* the 16th call, with 15 calls not yet returned.
C17_Witness ==
    /\ last.call = "tick" /\ last.op = 238 /\ ticks = 17
    /\ sp = 15 /\ pc = START_ADDR + 62 /\ stack[15] = pc
    /\ panic = NoPanic

NNN == next_op % 4096

\* C15: after 1NNN and after 2NNN pc is the low 12 bits of the word, after
\* ANNN I is the low 12 bits of the word, and after BNNN pc is V0 + NNN, not
\* reduced modulo 4096.
C15_AddressOperands ==
    [][(Ticked /\ next_op >= 0) =>
          /\ digit1(next_op) \in {1, 2} => (pc' = NNN /\ pc' \in 0..4095)
          /\ digit1(next_op) = 10 => (i_reg' = NNN /\ i_reg' \in 0..4095)
          /\ digit1(next_op) = 11 => (pc' = v_reg[0] + NNN /\ pc' \in 0..4350)]_vars

\* C15 witness: BFFF with V0 = 255 has set pc to 0x10FE.
C15_Witness ==
    /\ last.call = "tick" /\ last.op = word(11, 15, 15, 15)
    /\ v_reg[0] = 255 /\ pc = 4350

\* C16: a load of at most 3584 bytes sets mem[0x200 + i] to byte i of the
\* image and changes no other byte of the memory and no other field; a load
\* of more than 3584 bytes fails and changes no byte of the memory.
C16_LoadFrame ==
    [][last'.call = "load" =>
          LET data == IMAGES[last'.arg]
              range == START_ADDR..(START_ADDR + Len(data) - 1)
          IN  IF Len(data) <= 3584
              THEN /\ \A a \in range : byte(ram', a) = data[a - START_ADDR + 1]
                   /\ \A a \in (DOMAIN ram \cup DOMAIN ram') \ range : byte(ram', a) = byte(ram, a)
                   /\ UNCHANGED << pc, screen, v_reg, i_reg, sp, stack, keys, dt, st, panic >>
              ELSE /\ panic' # NoPanic
                   /\ UNCHANGED << ram, pc, screen, v_reg, i_reg, sp, stack, keys, dt, st >>]_vars

\* C16 witness: the image of 3584 bytes has been loaded over the set-up
\* program after its three instructions ran: its last byte is at 0xFFF, the
\* bytes of the set-up program are gone, and V0, st, sp and pc are kept.
C16_Witness ==
    /\ last.call = "load" /\ last.arg = 4 /\ ticks = 3
    /\ byte(ram, RAM_SIZE - 1) = 9 /\ byte(ram, START_ADDR) = 18 /\ byte(ram, START_ADDR + 1) = 0
    /\ byte(ram, 0) = 240
    /\ v_reg[0] = 7 /\ st = 7 /\ sp = 1 /\ pc = START_ADDR + 8 /\ keys[7]

is_EXNN(w, nn) == w >= 0 /\ digit1(w) = 14 /\ w % 256 = nn
key_pressed(k) == k < NUM_KEYS /\ keys[k]

\* C18: for every VX in 0..255, EX9E completes with pc 4 above its value
\* before the tick if key VX is pressed and 2 above otherwise, EXA1
\* completes with pc 4 above if key VX is not pressed and 2 above
\* otherwise, neither changes a key flag, and keypress(i, b) changes flag i
\* only.
C18_KeySkips ==
    [][/\ (Ticked /\ is_EXNN(next_op, 158)) =>
             /\ panic' = NoPanic
             /\ pc' = IF key_pressed(VX) THEN pc + 4 ELSE pc + 2
             /\ keys' = keys
       /\ (Ticked /\ is_EXNN(next_op, 161)) =>
             /\ panic' = NoPanic
             /\ pc' = IF ~key_pressed(VX) THEN pc + 4 ELSE pc + 2
             /\ keys' = keys
       /\ last'.call = "keypress" =>
             \A k \in 0..(NUM_KEYS - 1) : k # last'.arg => keys'[k] = keys[k]]_vars

\* C19: an FX55 whose bytes I .. I + X lie inside the ram stores V0 .. VX
\* there and leaves the other bytes, the registers and I; an FX65 sets
\* V0 .. VX from these bytes and leaves the registers above X, the memory
\* and I; and the FX65 that follows an FX55 of the same X, with I as it was,
\* restores V0 .. VX to their values at the FX55.
C19_StoreLoad ==
    [][/\ (Ticked /\ is_FXNN(next_op, 85) /\ i_reg + X < RAM_SIZE) =>
             /\ \A k \in 0..X : byte(ram', i_reg + k) = v_reg[k]
             /\ \A a \in (DOMAIN ram \cup DOMAIN ram') \ (i_reg..(i_reg + X)) : byte(ram', a) = byte(ram, a)
             /\ v_reg' = v_reg /\ i_reg' = i_reg
       /\ (Ticked /\ is_FXNN(next_op, 101) /\ i_reg + X < RAM_SIZE) =>
             /\ \A k \in 0..X : v_reg'[k] = byte(ram, i_reg + k)
             /\ \A r \in (X + 1)..(NUM_REGISTERS - 1) : v_reg'[r] = v_reg[r]
             /\ ram' = ram /\ i_reg' = i_reg
       /\ (/\ Ticked /\ is_FXNN(next_op, 101) /\ i_reg + X < RAM_SIZE
           /\ ticks = 3 /\ i_reg = initial.i_reg
           /\ byte(initial.ram, START_ADDR) * 256 + byte(initial.ram, START_ADDR + 1) = word(15, X, 5, 5)) =>
             \A k \in 0..X : v_reg'[k] = initial.v_reg[k]]_vars

\* C19 witness: F355 at I = 0x300, V0 set to 200 and V3 incremented, then
\* F365: V0 .. V3 are as at the F355 and the four bytes hold them.
C19_Witness ==
    /\ last.call = "tick" /\ last.op = word(15, 3, 6, 5) /\ ticks = 4
    /\ i_reg = 768 /\ initial.v_reg[0] = 16
    /\ \A k \in 0..3 : v_reg[k] = initial.v_reg[k] /\ byte(ram, 768 + k) = v_reg[k]
    /\ byte(ram, 768 + 4) = 0

\* the flag of the instruction about to run, from the registers as they
\* are now: carry, not-borrow, shifted-out bit
flag_of(w) ==
    CASE is_8XYN(w, 4) -> IF VX + VY >= 256 THEN 1 ELSE 0
      [] is_8XYN(w, 5) -> IF VX < VY THEN 0 ELSE 1
      [] is_8XYN(w, 7) -> IF VY < VX THEN 0 ELSE 1
      [] is_8XYN(w, 6) -> VX % 2
      [] is_8XYN(w, 14) -> VX \div 128

\* its result, from the registers as they are now
result_of(w) ==
    CASE is_8XYN(w, 4) -> (VX + VY) % 256
      [] is_8XYN(w, 5) -> (VX - VY + 256) % 256
      [] is_8XYN(w, 7) -> (VY - VX + 256) % 256
      [] is_8XYN(w, 6) -> VX \div 2
      [] is_8XYN(w, 14) -> (2 * VX) % 256

\* C20: 8XY4, 8XY5, 8XY7, 8XY6, 8XYE and DXYN compute result and flag from
\* the registers as they were before the instruction, the old VF included
\* when X or Y is 15, and write the flag last: VF ends as the flag for every
\* X, register X ends as the result for X other than 15, and a DXYN draws at
\* the origin (old VX, old VY) and leaves the collision flag in VF.
C20_FlagLast ==
    [][/\ (Ticked /\ \E n \in {4, 5, 6, 7, 14} : is_8XYN(next_op, n)) =>
             /\ v_reg'[15] = flag_of(next_op)
             /\ X # 15 => v_reg'[X] = result_of(next_op)
       /\ Drawing =>
             /\ v_reg'[15] = (IF sprite_pixels \cap screen # {} THEN 1 ELSE 0)
             /\ screen' = (screen \cup sprite_pixels) \ (screen \cap sprite_pixels)
             /\ \A r \in 0..(NUM_REGISTERS - 2) : v_reg'[r] = v_reg[r]]_vars

\* C20 witness: 8F34 has run with VF = 200 and V3 = 100: the sum is 44 with
\* a carry, and VF holds the carry.
C20_Witness ==
    /\ last.call = "tick" /\ last.op = word(8, 15, 3, 4)
    /\ initial.v_reg[15] = 200 /\ initial.v_reg[3] = 100
    /\ v_reg[15] = 1

=============================================================================
